---- MODULE Spec2Model ----
(***************************************************************************)
(* Model of the koi/qoir pixel-stream codec: PixelEncoder                  *)
(* (src/koi/encoder/stream.rs) and PixelDecoder                            *)
(* (src/src/decoder/stream.rs).                                            *)
(*                                                                         *)
(* One encoder session writes into a byte sink `out`; a decoder session is *)
(* then opened over the produced bytes (optionally with a damaged          *)
(* terminator) and read until it reports end-of-stream or an error.        *)
(*                                                                         *)
(* The helper modules `types`, `util`, `reader` and `writer` of the crate  *)
(* are not part of the sources at hand.  Their operators (pixel_hash,      *)
(* color_diff, luma_diff, alpha_diff, apply_diff, apply_luma, is_gray, the *)
(* OP constants, END_OF_IMAGE, Reader::read, the Writer calls) are         *)
(* modelled from the format description and kept in one place below.       *)
(***************************************************************************)
EXTENDS Integers, Sequences, FiniteSets, TLC

(***************************************************************************)
(* Bounds of the exploration.                                              *)
(***************************************************************************)
\* largest declared pixels_count, and largest number of whole pixels of raw
\* input handed to one session
MaxPixels == 2
\* largest number of END_OF_IMAGE markers one session gets to write
MaxFins == 2
\* largest number of backend writer calls that succeed in a write call whose
\* backend then fails
MaxBudget == 1
\* most calls of read of one decoder session that end in a panic
MaxPanics == 1

(***************************************************************************)
(* Format constants (module `types`).                                      *)
(***************************************************************************)
CACHE_SIZE == 64
OP_INDEX == 0
OP_INDEX_END == 63
OP_DIFF == 64
OP_DIFF_END == 127
OP_LUMA == 128
OP_LUMA_END == 191
OP_ALPHA_DIFF == 192
OP_ALPHA_DIFF_END == 223
OP_RUNLENGTH == 224
OP_RUNLENGTH_END == 251
OP_GRAY == 252
OP_GRAY_ALPHA == 253
OP_RGB == 254
OP_RGBA == 255
END_OF_IMAGE == <<0, 0, 0, 0, 0, 0, 0, 1>>
\* Channels::Rgba as u8
ChannelsRgba == 4

(***************************************************************************)
(* Pixel arithmetic (modules `types` and `util`).  A pixel is <<r,g,b,a>>. *)
(***************************************************************************)
RgbaColor(r, g, b, a) == <<r, g, b, a>>

pixel_hash(p) == (p[1] * 3 + p[2] * 5 + p[3] * 7 + p[4] * 11) % CACHE_SIZE

is_gray(p) == p[1] = p[2] /\ p[2] = p[3]

\* wraparound u8 subtraction reduced to the signed range -128..127
wrapping_diff(x, y) ==
    LET d == (x - y + 256) % 256 IN IF d >= 128 THEN d - 256 ELSE d

\* RgbaColor::diff: signed per-channel difference of the colour channels
diff(curr, prev) ==
    <<wrapping_diff(curr[1], prev[1]),
      wrapping_diff(curr[2], prev[2]),
      wrapping_diff(curr[3], prev[3])>>

None == <<>>

\* color_diff: one byte, 2 bits per channel with bias 2, or None
color_diff(d) ==
    IF \A i \in 1..3 : d[i] >= -2 /\ d[i] <= 1
    THEN <<OP_DIFF + (d[1] + 2) * 16 + (d[2] + 2) * 4 + (d[3] + 2)>>
    ELSE None

\* luma_diff: two bytes, 6 bits of green with bias 32, then red and blue
\* relative to green in 4 bits each with bias 8, or None
luma_diff(d) ==
    IF /\ d[2] >= -32 /\ d[2] <= 31
       /\ d[1] - d[2] >= -8 /\ d[1] - d[2] <= 7
       /\ d[3] - d[2] >= -8 /\ d[3] - d[2] <= 7
    THEN <<OP_LUMA + (d[2] + 32), (d[1] - d[2] + 8) * 16 + (d[3] - d[2] + 8)>>
    ELSE None

\* RgbaColor::alpha_diff: one byte, 5 bits of alpha delta with bias 16, or None
alpha_diff(prev, curr) ==
    LET d == wrapping_diff(curr[4], prev[4]) IN
    IF d >= -16 /\ d <= 15 THEN <<OP_ALPHA_DIFF + (d + 16)>> ELSE None

\* RgbaColor::apply_diff: inverse of color_diff, alpha kept
apply_diff(p, b1) ==
    LET v == b1 - OP_DIFF IN
    <<(p[1] + (v \div 16) - 2 + 256) % 256,
      (p[2] + ((v \div 4) % 4) - 2 + 256) % 256,
      (p[3] + (v % 4) - 2 + 256) % 256,
      p[4]>>

\* RgbaColor::apply_luma: inverse of luma_diff, alpha kept
apply_luma(p, b1, b2) ==
    LET dg == (b1 - OP_LUMA) - 32
        dr == dg + (b2 \div 16) - 8
        db == dg + (b2 % 16) - 8
    IN <<(p[1] + dr + 256) % 256,
         (p[2] + dg + 256) % 256,
         (p[3] + db + 256) % 256,
         p[4]>>

(***************************************************************************)
(* The cache array [RgbaColor; CACHE_SIZE].  It is held as the function    *)
(* from the slots that differ from RgbaColor([0,0,0,0]) to their pixels;   *)
(* every slot outside its domain holds RgbaColor([0,0,0,0]).  Slot reads   *)
(* cache[i] and Store performs cache[i] = p on that representation.        *)
(***************************************************************************)
ZeroPixel == RgbaColor(0, 0, 0, 0)
ZeroCache == [i \in {} |-> ZeroPixel]
Slots == 0..(CACHE_SIZE - 1)
Slot(ch, i) == IF i \in DOMAIN ch THEN ch[i] ELSE ZeroPixel
Store(ch, i, p) ==
    IF p = ZeroPixel THEN [j \in DOMAIN ch \ {i} |-> ch[j]]
    ELSE [j \in DOMAIN ch \cup {i} |-> IF j = i THEN p ELSE ch[j]]

(***************************************************************************)
(* Inputs: raw bytes are drawn from pixels of a small palette that makes   *)
(* every encoding rule occur.                                              *)
(***************************************************************************)
Palette3 == { <<0, 0, 0>>, <<1, 1, 1>>, <<3, 3, 3>>, <<40, 40, 40>>, <<40, 0, 3>> }
Palette4 == { <<0, 0, 0, 0>>, <<1, 1, 1, 255>>, <<1, 1, 1, 1>>,
              <<40, 40, 40, 40>>, <<40, 0, 3, 40>>, <<40, 0, 3, 255>> }
ChannelSet == { 3, ChannelsRgba }

PixelSet(c) == IF c = 3 THEN Palette3 ELSE Palette4

PixSeqs(c, n) == UNION { [1..k -> PixelSet(c)] : k \in 0..n }

RECURSIVE Flatten(_)
Flatten(ps) == IF ps = <<>> THEN <<>> ELSE Head(ps) \o Flatten(Tail(ps))

IsPrefix(s, t) == Len(s) <= Len(t) /\ SubSeq(t, 1, Len(s)) = s

VARIABLES
    C,              \* const C: channel count of both sessions
    pixels_count,   \* declared pixel count of both sessions
    \* PixelEncoder
    pixels_in,      \* pixels encoded so far
    cache,
    prev_pixel,
    buffer,
    out,            \* bytes accepted by the backend writer, in order
    \* observations of the encoder session
    raw,            \* every raw byte handed to write, in order
    enc_res,        \* result of the last write or flush call
    enc_log,        \* one record per call of encode_pixel
    fins,           \* offsets in out at which END_OF_IMAGE was written
    io_failed,      \* a backend writer call has failed in this session
    called_finish,  \* the caller has called finish itself in this session
    \* PixelDecoder
    phase,          \* "enc": encoder session running, "dec": decoder opened
    stream,         \* bytes behind the decoder's reader
    pos,            \* bytes the reader has consumed
    d_cache,
    last_px,
    d_pixels_in,
    dec_res,        \* result of the last read
    dec_call,       \* arm of the last read, and whether it panicked on a
                    \* buffer of fewer than C bytes
    panics,         \* calls of read that panicked in this decoder session
    dec_log,        \* one record per read that reconstructed a pixel
    damaged         \* the terminator of stream was altered

vars == <<C, pixels_count, pixels_in, cache, prev_pixel, buffer, out, raw,
          enc_res, enc_log, fins, io_failed, called_finish, phase, stream, pos, d_cache,
          last_px, d_pixels_in, dec_res, dec_call, panics, dec_log, damaged>>

encVars == <<pixels_in, cache, prev_pixel, buffer, out, raw, enc_res,
             enc_log, fins, io_failed, called_finish>>
decVars == <<stream, pos, d_cache, last_px, d_pixels_in, dec_res, dec_call, panics,
            dec_log,
             damaged>>

(***************************************************************************)
(* PixelEncoder.  The body of write is computed on a record holding the    *)
(* session fields; budget is the number of backend writer calls that still *)
(* succeed in this call (-1: the backend does not fail).                   *)
(***************************************************************************)
EncState(budget) ==
    [pin |-> pixels_in, cache |-> cache, prev |-> prev_pixel, buf |-> buffer,
     out |-> out, log |-> enc_log, fins |-> fins, budget |-> budget,
     taken |-> 0, err |-> FALSE, panic |-> FALSE]

\* Writer::write_one / Writer::write_all: all bytes reach the sink or the call fails
writer_write(st, bytes) ==
    IF st.budget = 0 THEN [st EXCEPT !.err = TRUE]
    ELSE [st EXCEPT !.out = @ \o bytes,
                    !.budget = IF @ > 0 THEN @ - 1 ELSE @]

\* a run of writer calls, each followed by `?`
RECURSIVE writer_calls(_, _)
writer_calls(st, cs) ==
    IF cs = <<>> \/ st.err THEN st
    ELSE writer_calls(writer_write(st, Head(cs)), Tail(cs))

\* PixelEncoder::cache_pixel
\* cache_pixel storing one slot further
cache_pixel_next_slot(ch, curr_pixel) ==
    Store(ch, (pixel_hash(curr_pixel) + 1) % CACHE_SIZE, curr_pixel)

\* PixelEncoder::cache_pixel
cache_pixel(ch, curr_pixel) == Store(ch, pixel_hash(curr_pixel), curr_pixel)

\* select_rule without the test of the cache
select_rule_no_index(ch, curr, prev) ==
    IF /\ SubSeq(curr, 1, 3) = SubSeq(prev, 1, 3)
       /\ curr[4] # prev[4]
       /\ alpha_diff(prev, curr) # None THEN "AlphaDiff"
    ELSE IF curr[4] # prev[4] /\ curr[4] # 255
         THEN (IF is_gray(curr) THEN "GrayAlpha" ELSE "Rgba")
    ELSE IF color_diff(diff(curr, prev)) # None THEN "Diff"
    ELSE IF luma_diff(diff(curr, prev)) # None THEN "Luma"
    ELSE IF is_gray(curr) /\ curr[1] = curr[2] /\ curr[2] = curr[3] THEN "Gray"
    ELSE "Rgb"

\* The cascade of encode_pixel: the rule whose branch returns.
select_rule(ch, curr, prev) ==
    IF Slot(ch, pixel_hash(curr)) = curr THEN "Index"
    ELSE IF /\ SubSeq(curr, 1, 3) = SubSeq(prev, 1, 3)
            /\ curr[4] # prev[4]
            /\ alpha_diff(prev, curr) # None THEN "AlphaDiff"
    ELSE IF curr[4] # prev[4] /\ curr[4] # 255
         THEN (IF is_gray(curr) THEN "GrayAlpha" ELSE "Rgba")
    ELSE IF color_diff(diff(curr, prev)) # None THEN "Diff"
    ELSE IF luma_diff(diff(curr, prev)) # None THEN "Luma"
    ELSE IF is_gray(curr) /\ curr[1] = curr[2] /\ curr[2] = curr[3] THEN "Gray"
    ELSE "Rgb"

\* The writer calls made by the branch of each rule, in order.
rule_writes(rule, curr, prev) ==
    CASE rule = "Index" -> << <<OP_INDEX + pixel_hash(curr)>> >>
      [] rule = "AlphaDiff" -> << alpha_diff(prev, curr) >>
      [] rule = "GrayAlpha" -> << <<OP_GRAY_ALPHA>>, <<curr[1], curr[4]>> >>
      [] rule = "Rgba" -> << <<OP_RGBA>>, curr >>
      [] rule = "Diff" -> << color_diff(diff(curr, prev)) >>
      [] rule = "Luma" -> << luma_diff(diff(curr, prev)) >>
      [] rule = "Gray" -> << <<OP_GRAY>>, <<curr[1]>> >>
      [] rule = "Rgb" -> << <<OP_RGB, curr[1], curr[2], curr[3]>> >>

\* PixelEncoder::encode_pixel
encode_pixel(st, curr_pixel, prev) ==
    IF C < ChannelsRgba /\ curr_pixel[4] # 255
    THEN [st EXCEPT !.panic = TRUE]
    ELSE LET rule == select_rule(st.cache, curr_pixel, prev)
             s1 == [st EXCEPT !.pin = @ + 1,
                              !.cache = cache_pixel(@, curr_pixel)]
             s2 == writer_calls(s1, rule_writes(rule, curr_pixel, prev))
         IN [s2 EXCEPT !.log = Append(@,
                [px |-> curr_pixel,
                 prev |-> prev,
                 slot |-> Slot(st.cache, pixel_hash(curr_pixel)),
                 at |-> Len(st.out),
                 bytes |-> SubSeq(s2.out, Len(st.out) + 1, Len(s2.out)),
                 cache |-> s2.cache,
                 ok |-> ~s2.err])]

\* the pixel assembled over RgbaColor([0, 0, 0, 0])
assemble_zero(buf) == [k \in 1..4 |-> IF k <= C THEN buf[k] ELSE 0]

\* the pixel assembled from the buffer: (0,0,0,255) with the first C bytes overwritten
assemble(buf) == [k \in 1..4 |-> IF k <= C THEN buf[k] ELSE 255]

\* the `for byte in buf` loop of write
RECURSIVE write_loop(_, _, _)
write_loop(st, buf, i) ==
    IF i > Len(buf) THEN st
    ELSE LET pushed == [st EXCEPT !.buf = Append(@, buf[i]), !.taken = i] IN
         IF Len(pushed.buf) = C
         THEN LET curr_pixel == assemble(pushed.buf)
                  enc == encode_pixel(pushed, curr_pixel, pushed.prev)
              IN IF enc.err \/ enc.panic THEN enc
                 ELSE write_loop([enc EXCEPT !.prev = curr_pixel, !.buf = <<>>],
                                 buf, i + 1)
         ELSE write_loop(pushed, buf, i + 1)

\* PixelEncoder::finish
finish(st) ==
    LET s == writer_write(st, END_OF_IMAGE) IN
    IF s.err THEN s ELSE [s EXCEPT !.fins = Append(@, Len(st.out))]

\* the test that ends write
at_count(st) == st.pin = pixels_count

\* <PixelEncoder as Write>::write
write(st, buf) ==
    LET looped == write_loop(st, buf, 1) IN
    IF looped.err \/ looped.panic THEN looped
    ELSE IF at_count(looped) THEN finish(looped)
    ELSE looped

\* flush without the test of the buffer
flush_unchecked(buf, backend_fails) ==
    IF backend_fails THEN "io_error" ELSE "ok"

\* <PixelEncoder as Write>::flush: the result for a backend flush that
\* fails (backend_fails) or succeeds
flush(buf, backend_fails) ==
    IF backend_fails THEN "io_error"
    ELSE IF buf # <<>> THEN "buffer_not_empty"
    ELSE "ok"

(***************************************************************************)
(* PixelDecoder.                                                           *)
(***************************************************************************)
\* blen is buf.len() of the caller's buffer; arm is the branch read has taken
DecState(blen) ==
    [cache |-> d_cache, last |-> last_px, pin |-> d_pixels_in, pos |-> pos,
     log |-> dec_log, res |-> "none", blen |-> blen, arm |-> "none"]

\* buf[..n].copy_from_slice(..) on a buffer shorter than n panics: the bytes
\* taken from the reader stay consumed and no field of the decoder is updated
slice_panic(d) == [d EXCEPT !.res = "panic"]

\* Reader::read::<N>: N bytes are available behind position p
reader_has(p, n) == p + n <= Len(stream)
reader_bytes(p, n) == SubSeq(stream, p + 1, p + n)
\* a read that finds fewer than N bytes fails after draining the source
reader_fail(d) == [d EXCEPT !.pos = Len(stream), !.res = "io_error"]

\* the arm of `match b1` that is taken
dispatch_arm(b1) ==
    IF b1 >= OP_INDEX /\ b1 <= OP_INDEX_END THEN "Index"
    ELSE IF b1 = OP_RGB THEN "Rgb"
    ELSE IF b1 = OP_RGBA /\ C >= ChannelsRgba THEN "Rgba"
    ELSE IF b1 >= OP_RUNLENGTH /\ b1 <= OP_RUNLENGTH_END THEN "RunLength"
    ELSE IF b1 >= OP_DIFF /\ b1 <= OP_DIFF_END THEN "Diff"
    ELSE IF b1 >= OP_LUMA /\ b1 <= OP_LUMA_END THEN "Luma"
    ELSE "Other"

\* the amount added to pixels_in by a read that consumed n bytes
counted(n) == n

\* the tail of read shared by every arm but Index: store, remember, count
reconstruct(d, pixel, n, arm, p0) ==
    IF d.blen < 4 THEN slice_panic(d) ELSE
    [d EXCEPT !.cache = Store(@, pixel_hash(pixel), pixel),
              !.last = pixel,
              !.pin = @ + counted(n),
              !.res = "ok",
              !.log = Append(@, [px |-> pixel, n |-> n, arm |-> arm, at |-> p0,
                                 buf |-> pixel,
                                 cache |-> Store(d.cache, pixel_hash(pixel), pixel)])]

\* the Index arm running on into the cache store of the shared tail
index_hit_caching(d, b1, p0) ==
    IF d.blen < C THEN slice_panic(d) ELSE
    LET pixel == RgbaColor(0, 0, 0, 255)
        stored == Store(d.cache, pixel_hash(pixel), pixel)
    IN [d EXCEPT !.cache = stored,
                 !.last = Slot(d.cache, b1),
                 !.pin = @ + counted(1),
                 !.res = "ok",
                 !.log = Append(@, [px |-> Slot(d.cache, b1), n |-> 1,
                                    arm |-> "Index", at |-> p0,
                                    buf |-> SubSeq(Slot(d.cache, b1), 1, C),
                                    cache |-> stored])]

\* the Index arm of read: the slot is copied out and remembered, and the
\* arm returns without reaching the shared tail
index_hit(d, b1, p0) ==
    IF d.blen < C THEN slice_panic(d) ELSE
    [d EXCEPT !.last = Slot(d.cache, b1),
              !.pin = @ + counted(1),
              !.res = "ok",
              !.log = Append(@, [px |-> Slot(d.cache, b1), n |-> 1,
                                 arm |-> "Index", at |-> p0,
                                 buf |-> SubSeq(Slot(d.cache, b1), 1, C),
                                 cache |-> d.cache])]

\* the end-of-image branch of read, entered after the leading byte was taken
check_end(d) ==
    IF ~reader_has(d.pos, 8) THEN reader_fail(d)
    ELSE [d EXCEPT !.pos = @ + 8,
                   !.res = IF reader_bytes(d.pos, 8) # END_OF_IMAGE
                           THEN "invalid_data" ELSE "eof"]

\* the test that sends read to the end-of-image branch
at_end(d) == d.pin >= pixels_count

\* <PixelDecoder as Read>::read
read(d0) ==
    IF ~reader_has(d0.pos, 1) THEN reader_fail(d0)
    ELSE
    LET b1 == stream[d0.pos + 1]
        arm == dispatch_arm(b1)
        d == [d0 EXCEPT !.pos = @ + 1,
                        !.arm = IF at_end(d0) THEN "End" ELSE arm]
        pixel == RgbaColor(0, 0, 0, 255)
    IN
    IF at_end(d) THEN check_end(d)
    ELSE CASE arm = "Index" -> index_hit(d, b1, d0.pos)
           [] arm = "Rgb" ->
                IF ~reader_has(d.pos, 3) THEN reader_fail(d)
                ELSE reconstruct([d EXCEPT !.pos = @ + 3],
                                 reader_bytes(d.pos, 3) \o <<255>>, 4, arm, d0.pos)
           [] arm = "Rgba" ->
                IF ~reader_has(d.pos, 4) THEN reader_fail(d)
                ELSE reconstruct([d EXCEPT !.pos = @ + 4],
                                 reader_bytes(d.pos, 4), 5, arm, d0.pos)
           [] arm = "RunLength" -> reconstruct(d, pixel, 1, arm, d0.pos)
           [] arm = "Diff" ->
                reconstruct(d, apply_diff(d.last, b1), 1, arm, d0.pos)
           [] arm = "Luma" ->
                IF ~reader_has(d.pos, 1) THEN reader_fail(d)
                ELSE reconstruct([d EXCEPT !.pos = @ + 1],
                                 apply_luma(d.last, b1, stream[d.pos + 1]),
                                 2, arm, d0.pos)
           [] arm = "Other" -> reconstruct(d, pixel, 1, arm, d0.pos)

(***************************************************************************)
(* The state machine.                                                      *)
(***************************************************************************)
\* PixelEncoder::new
EncoderNew ==
    /\ cache = ZeroCache
    /\ pixels_in = 0
    /\ prev_pixel = RgbaColor(0, 0, 0, 0)
    /\ buffer = <<>>

\* PixelDecoder::new
DecoderNew(data) ==
    /\ stream' = data
    /\ pos' = 0
    /\ d_cache' = ZeroCache
    /\ last_px' = RgbaColor(0, 0, 0, 255)
    /\ d_pixels_in' = 0

NoResult == [op |-> "none", r |-> "none"]
NoCall == [arm |-> "none", short |-> FALSE]

Init ==
    /\ C \in ChannelSet
    /\ pixels_count \in 0..MaxPixels
    /\ EncoderNew
    /\ out = <<>> /\ raw = <<>> /\ enc_res = NoResult
    /\ enc_log = <<>> /\ fins = <<>> /\ io_failed = FALSE
    /\ called_finish = FALSE
    /\ phase = "enc"
    \* the decoder does not exist yet; its fields hold what new will set
    /\ stream = <<>> /\ pos = 0 /\ d_cache = ZeroCache
    /\ last_px = RgbaColor(0, 0, 0, 255) /\ d_pixels_in = 0
    /\ dec_res = "none" /\ dec_call = NoCall /\ panics = 0
    /\ dec_log = <<>> /\ damaged = FALSE

\* the byte chunks a caller may hand to write: they continue the bytes not yet
\* encoded with pixels of the palette, cut anywhere
\* one call of write is handed the bytes of at most ChunkPixels pixels; longer
\* inputs reach the session over several calls
ChunkPixels == 2
Left == MaxPixels - ((Len(raw) - Len(buffer)) \div C)
Room == IF Left > ChunkPixels THEN ChunkPixels ELSE Left
Chunks ==
    { SubSeq(Flatten(x[1]), Len(buffer) + 1, x[2]) :
        x \in { y \in PixSeqs(C, Room) \X (0..(Room * C)) :
                  /\ y[2] <= Len(y[1]) * C
                  /\ y[2] > (Len(y[1]) - 1) * C
                  /\ y[2] >= Len(buffer)
                  /\ IsPrefix(buffer, SubSeq(Flatten(y[1]), 1, y[2])) } }

\* One call of write(buf), with the backend failing after budget writer calls.
\* The backend fails in at most one call of a session.  flush changes no field
\* of the session, so the calls of write are explored before it only.
EncWriteWith(budgets) ==
    /\ phase = "enc"
    /\ Len(fins) < MaxFins
    /\ enc_res.r # "panic"
    /\ enc_res.op # "flush"
    /\ \E buf \in Chunks, budget \in budgets :
         LET st == write(EncState(budget), buf) IN
         \* a failure that was asked for must happen in this call
         /\ budget >= 0 => (st.err /\ ~io_failed)
         /\ pixels_in' = st.pin
         /\ cache' = st.cache
         /\ prev_pixel' = st.prev
         /\ buffer' = st.buf
         /\ out' = st.out
         /\ enc_log' = st.log
         /\ fins' = st.fins
         /\ io_failed' = (io_failed \/ st.err)
         /\ raw' = raw \o SubSeq(buf, 1, IF st.err \/ st.panic THEN st.taken ELSE Len(buf))
         /\ enc_res' = [op |-> "write",
                        r |-> IF st.panic THEN "panic"
                              ELSE IF st.err THEN "io_error" ELSE "ok"]
    /\ UNCHANGED <<C, pixels_count, phase, called_finish>>
    /\ UNCHANGED decVars

EncWrite == EncWriteWith(-1..MaxBudget)

\* one call of write over a backend that does not fail
EncWriteClean == EncWriteWith({-1})

\* The direct call of the public finish, with a backend that fails or not.
\* The caller makes it at most once in a session, at any point between the
\* calls of write.
EncFinishWith(budgets) ==
    /\ phase = "enc"
    /\ ~called_finish
    /\ Len(fins) < MaxFins
    /\ enc_res.r # "panic"
    /\ enc_res.op # "flush"
    /\ \E budget \in budgets :
         LET st == finish(EncState(budget)) IN
         /\ budget >= 0 => ~io_failed
         /\ out' = st.out
         /\ fins' = st.fins
         /\ io_failed' = (io_failed \/ st.err)
         /\ enc_res' = [op |-> "finish",
                        r |-> IF st.err THEN "io_error" ELSE "ok"]
    /\ called_finish' = TRUE
    /\ UNCHANGED <<C, pixels_count, phase, pixels_in, cache, prev_pixel, buffer,
                   raw, enc_log>>
    /\ UNCHANGED decVars

EncFinish == EncFinishWith({-1, 0})

\* the direct call of finish over a backend that does not fail
EncFinishClean == EncFinishWith({-1})

\* one call of flush
EncFlush ==
    /\ phase = "enc"
    /\ enc_res.r # "panic"
    /\ \E backend_fails \in BOOLEAN :
         enc_res' = [op |-> "flush", r |-> flush(buffer, backend_fails)]
    /\ UNCHANGED <<C, pixels_count, phase, pixels_in, cache, prev_pixel, buffer,
                   out, raw, enc_log, fins, io_failed, called_finish>>
    /\ UNCHANGED decVars

\* the session wrote exactly pixels_count pixels and then the terminator once
CleanStream ==
    /\ ~io_failed
    /\ enc_res.r # "panic"
    /\ buffer = <<>>
    /\ Len(raw) = pixels_count * C
    /\ fins = <<Len(out) - 8>>

\* a decoder is built over the bytes the encoder produced, once a write call
\* has returned Ok and no call of the session has failed
Handed ==
    /\ phase = "enc"
    /\ ~io_failed
    /\ enc_res.op \in {"write", "finish"}
    /\ enc_res.r = "ok"

Open ==
    /\ Handed
    /\ phase' = "dec"
    /\ DecoderNew(out)
    /\ dec_res' = "none" /\ dec_call' = NoCall /\ panics' = 0
    /\ dec_log' = <<>> /\ damaged' = FALSE
    /\ UNCHANGED <<C, pixels_count>>
    /\ UNCHANGED encVars

\* a decoder is built over a clean stream one of whose terminator bytes changed
OpenDamaged ==
    /\ Handed
    /\ CleanStream
    /\ phase' = "dec"
    /\ \E k \in (Len(out) - 7)..Len(out) :
         DecoderNew([out EXCEPT ![k] = (@ + 1) % 256])
    /\ dec_res' = "none" /\ dec_call' = NoCall /\ panics' = 0
    /\ dec_log' = <<>> /\ damaged' = TRUE
    /\ UNCHANGED <<C, pixels_count>>
    /\ UNCHANGED encVars

\* the lengths of the buffer a caller hands to read: too short for a pixel
\* of C channels, exactly C bytes, and the four bytes of an RgbaColor
BufLens == {C - 1, C, ChannelsRgba}

\* one call of read(buf); the caller stops at end-of-stream or at an error
\* of the reader, and may call again after a panic it has caught
DecRead ==
    /\ phase = "dec"
    /\ dec_res \in {"none", "ok", "panic"}
    /\ \E blen \in BufLens :
         LET d == read(DecState(blen)) IN
         /\ d.res = "panic" => panics < MaxPanics
         /\ panics' = IF d.res = "panic" THEN panics + 1 ELSE panics
         /\ d_cache' = d.cache
         /\ last_px' = d.last
         /\ d_pixels_in' = d.pin
         /\ pos' = d.pos
         /\ dec_res' = d.res
         /\ dec_call' = [arm |-> d.arm,
                         short |-> d.res = "panic" /\ blen < C]
         /\ dec_log' = d.log
    /\ UNCHANGED <<C, pixels_count, phase, stream, damaged>>
    /\ UNCHANGED encVars

Next == EncWrite \/ EncFinish \/ EncFlush \/ Open \/ OpenDamaged \/ DecRead

Spec == Init /\ [][Next]_vars

\* Encoder sessions driven by write and flush alone.  finish leaves pixels_in,
\* cache, prev_pixel, buffer, raw and enc_log as they are.
NextEnc == EncWrite \/ EncFlush

SpecEnc == Init /\ [][NextEnc]_vars

\* Sessions whose backend never fails, followed by their decoders.  A decoder
\* is opened over the output of such a session only (Handed), so its states
\* are those of Spec.
NextClean == EncWriteClean \/ EncFinishClean \/ Open \/ OpenDamaged \/ DecRead

SpecClean == Init /\ [][NextClean]_vars

(***************************************************************************)
(* Observations shared by the properties.                                  *)
(***************************************************************************)
OpaqueBlack == RgbaColor(0, 0, 0, 255)

\* the raw bytes the decoder has delivered: the first C channels of each
\* reconstructed pixel, in order
DecodedBytes == Flatten([i \in 1..Len(dec_log) |-> SubSeq(dec_log[i].px, 1, C)])

\* the raw bytes of the pixels the encoder emitted without a backend failure
EncodedBytes ==
    Flatten([i \in 1..Len(enc_log) |->
               IF enc_log[i].ok THEN SubSeq(enc_log[i].px, 1, C) ELSE <<>>])

\* the decoder runs on a clean, undamaged stream of the encoder, and every
\* read was handed a buffer that held the pixel
ValidRun == phase = "dec" /\ CleanStream /\ ~damaged /\ panics = 0

\* the decoder session has ended: end-of-stream or an error was returned
DecEnded == phase = "dec" /\ dec_res \in {"eof", "invalid_data", "io_error"}

SameCache(a, b) == \A k \in Slots : Slot(a, k) = Slot(b, k)

Min(a, b) == IF a <= b THEN a ELSE b

(***************************************************************************)
(* C1  Round-trip: when a decoder built with the same C and pixels_count   *)
(* has read a clean stream of the encoder to its end, the pixels it        *)
(* reconstructed are exactly the raw bytes given to the encoder, in order. *)
(***************************************************************************)
RoundTrip == (ValidRun /\ DecEnded) => DecodedBytes = raw

(***************************************************************************)
(* C2  Cache parity: on a clean stream, after the decoder has decoded      *)
(* pixel i all 64 slots of its cache equal the encoder's cache after the   *)
(* encoder encoded pixel i, for every i.                                   *)
(***************************************************************************)
CacheParity ==
    ValidRun =>
        \A i \in 1..Min(Len(dec_log), Len(enc_log)) :
            SameCache(dec_log[i].cache, enc_log[i].cache)

(***************************************************************************)
(* C3  End of stream: on a clean stream (pixels_count = 0 included), the   *)
(* read made once pixels_count pixels are reconstructed returns            *)
(* end-of-stream without error, having consumed exactly the 8 terminator   *)
(* bytes.                                                                  *)
(***************************************************************************)
EndOfStreamOnValid ==
    (ValidRun /\ DecEnded /\ Len(dec_log) = pixels_count) =>
        (dec_res = "eof" /\ pos = Len(stream))

(***************************************************************************)
(* C4  Terminator written exactly once: in a session driven by calls of    *)
(* write alone END_OF_IMAGE is never written twice, and once a write call  *)
(* has returned Ok with the declared count reached it has been written     *)
(* once, right after the bytes of pixel number pixels_count and with       *)
(* nothing after it.                                                       *)
(***************************************************************************)
\* offset in out just behind the bytes of the first n encoded pixels
OpsEnd(n) ==
    IF n = 0 THEN 0
    ELSE enc_log[n].at + Len(enc_log[n].bytes)

TerminatorOnce ==
    ~called_finish =>
    /\ Len(fins) <= 1
    /\ (/\ phase = "enc" /\ ~io_failed
        /\ enc_res.op = "write" /\ enc_res.r = "ok"
        /\ pixels_in >= pixels_count)
       => (/\ Len(fins) = 1
           /\ Len(enc_log) = pixels_count
           /\ fins[1] = OpsEnd(pixels_count)
           /\ Len(out) = fins[1] + 8)

(***************************************************************************)
(* C5  Corrupted terminator: when the 8 bytes behind the last pixel's      *)
(* op-codes differ from END_OF_IMAGE, the decoder session ends with        *)
(* InvalidData, at the read made after exactly pixels_count pixels were    *)
(* reconstructed and at no earlier read.                                   *)
(***************************************************************************)
CorruptedTerminator ==
    (phase = "dec" /\ damaged /\ DecEnded /\ panics = 0) =>
        (dec_res = "invalid_data" /\ Len(dec_log) = pixels_count)

(***************************************************************************)
(* C6  The encoder stops at the declared count: in every state of the      *)
(* encoder pixels_in <= pixels_count.                                      *)
(***************************************************************************)
EncoderStopsAtCount == pixels_in <= pixels_count

(***************************************************************************)
(* C7  flush fails exactly when bytes of a pixel are buffered: after any   *)
(* calls of write, flush returns an error when the number of raw bytes     *)
(* taken so far is no multiple of C, returns Ok when the buffer is empty   *)
(* and the backend flush succeeded, and no raw byte is lost or emitted as  *)
(* a pixel: the bytes of the emitted pixels followed by the buffer are the *)
(* raw bytes taken.                                                        *)
(***************************************************************************)
FlushFailsOnPartialPixel ==
    enc_res.op = "flush" =>
        /\ (Len(raw) % C # 0) => enc_res.r # "ok"
        /\ (buffer = <<>> /\ enc_res.r # "io_error") => enc_res.r = "ok"
        /\ (buffer # <<>> /\ enc_res.r # "io_error") => enc_res.r = "buffer_not_empty"
        /\ raw = EncodedBytes \o buffer
        /\ ~io_failed => (Len(buffer) = Len(raw) % C /\ pixels_in = Len(raw) \div C)

\* flush has failed with 1..C-1 bytes buffered after whole pixels were emitted
FlushWitness ==
    /\ enc_res.op = "flush" /\ enc_res.r = "buffer_not_empty"
    /\ Len(buffer) > 0 /\ Len(buffer) < C
    /\ Len(enc_log) > 0

(***************************************************************************)
(* C8  Alpha invariant: in a C=3 decoder session reading a clean stream of *)
(* a C=3 encoder session, the previous-pixel state after each read and     *)
(* every value stored in the cache have alpha 255.                         *)
(***************************************************************************)
AlphaInvariant ==
    (ValidRun /\ C = 3) =>
        /\ last_px[4] = 255
        /\ \A i \in 1..Len(dec_log) : dec_log[i].px[4] = 255
        /\ \A k \in DOMAIN d_cache : d_cache[k][4] = 255

(***************************************************************************)
(* C9  Initial session state: a freshly constructed encoder and a freshly  *)
(* constructed decoder both have previous pixel (0,0,0,255).               *)
(***************************************************************************)
InitialPrevPixel ==
    /\ (phase = "enc" /\ raw = <<>> /\ ~io_failed) => prev_pixel = OpaqueBlack
    /\ (phase = "dec" /\ dec_res = "none") => last_px = OpaqueBlack

(***************************************************************************)
(* C10  Priority order: the bytes emitted for every pixel are the encoding *)
(* of the first rule whose condition holds, in the order Index, alpha-only *)
(* difference, gray-alpha literal, RGBA literal, coarse difference, luma   *)
(* difference, gray literal, RGB literal, each condition being the one the *)
(* op-code grammar gives the rule (the two differences and the gray        *)
(* literal require an unchanged alpha).  Index is emitted whenever the     *)
(* slot of the pixel's hash holds the pixel, and the coarse difference is  *)
(* emitted rather than the luma difference when both conditions hold.      *)
(***************************************************************************)
Rules == <<"Index", "AlphaDiff", "GrayAlpha", "Rgba", "Diff", "Luma", "Gray", "Rgb">>

\* the condition the op-code grammar gives each rule, on the pixel, the
\* previous pixel and the slot of the pixel's hash as the encoder found them
RuleHolds(rule, e) ==
    LET alpha_changed == e.px[4] # e.prev[4]
        d == diff(e.px, e.prev)
    IN CASE rule = "Index" -> e.slot = e.px
         [] rule = "AlphaDiff" ->
                /\ \A k \in 1..3 : e.px[k] = e.prev[k]
                /\ alpha_changed
                /\ wrapping_diff(e.px[4], e.prev[4]) \in -16..15
         [] rule = "GrayAlpha" -> alpha_changed /\ e.px[4] # 255 /\ is_gray(e.px)
         [] rule = "Rgba" -> alpha_changed /\ e.px[4] # 255 /\ ~is_gray(e.px)
         [] rule = "Diff" -> ~alpha_changed /\ \A k \in 1..3 : d[k] \in -2..1
         [] rule = "Luma" ->
                /\ ~alpha_changed
                /\ d[2] \in -32..31
                /\ (d[1] - d[2]) \in -8..7
                /\ (d[3] - d[2]) \in -8..7
         [] rule = "Gray" -> ~alpha_changed /\ is_gray(e.px)
         [] rule = "Rgb" -> TRUE

FirstRule(e) ==
    Rules[CHOOSE k \in 1..Len(Rules) :
            /\ RuleHolds(Rules[k], e)
            /\ \A j \in 1..(k - 1) : ~RuleHolds(Rules[j], e)]

PriorityOrder ==
    \A i \in 1..Len(enc_log) :
        LET e == enc_log[i] IN
        e.ok =>
            /\ e.bytes = Flatten(rule_writes(FirstRule(e), e.px, e.prev))
            /\ e.slot = e.px => e.bytes = <<OP_INDEX + pixel_hash(e.px)>>
            /\ (/\ FirstRule(e) \in {"Diff", "Luma"}
                /\ RuleHolds("Diff", e) /\ RuleHolds("Luma", e))
               => (Len(e.bytes) = 1 /\ e.bytes[1] \in OP_DIFF..OP_DIFF_END)

(***************************************************************************)
(* C11  The decoder's pixels_in counts pixels: after any successful reads  *)
(* that reconstructed pixels, pixels_in is the number of pixels            *)
(* reconstructed so far, whichever op-codes were dispatched.               *)
(***************************************************************************)
DecoderCountsPixels == phase = "dec" => d_pixels_in = Len(dec_log)

(***************************************************************************)
(* C12  Stream-position synchronisation: on a clean stream the decoder     *)
(* starts pixel i at the first byte the encoder emitted for pixel i and    *)
(* consumes exactly as many bytes as the encoder wrote for it.             *)
(***************************************************************************)
PositionSync ==
    ValidRun =>
        \A i \in 1..Min(Len(dec_log), Len(enc_log)) :
            /\ dec_log[i].at = enc_log[i].at
            /\ dec_log[i].n = Len(enc_log[i].bytes)

(***************************************************************************)
(* C13  RGB literal keeps alpha: a pixel the encoder emits as an RGB       *)
(* literal has the alpha of the previous pixel, and a pixel the decoder    *)
(* reconstructs from an RGB literal has the alpha of the decoder's         *)
(* previous pixel.                                                         *)
(***************************************************************************)
\* the decoder's previous pixel when it made the read of dec_log[i]
DecPrev(i) == IF i = 1 THEN OpaqueBlack ELSE dec_log[i - 1].px

RgbLiteralKeepsAlpha ==
    /\ \A i \in 1..Len(enc_log) :
          (enc_log[i].ok /\ enc_log[i].bytes[1] = OP_RGB)
              => enc_log[i].px[4] = enc_log[i].prev[4]
    /\ \A i \in 1..Len(dec_log) :
          dec_log[i].arm = "Rgb" => dec_log[i].px[4] = DecPrev(i)[4]

(***************************************************************************)
(* C14  Difference encodings require unchanged alpha: a pixel emitted as a *)
(* coarse or a luma difference has the alpha of the previous pixel.        *)
(***************************************************************************)
DiffRequiresSameAlpha ==
    \A i \in 1..Len(enc_log) :
        (enc_log[i].ok /\ enc_log[i].bytes[1] \in OP_DIFF..OP_LUMA_END)
            => enc_log[i].px[4] = enc_log[i].prev[4]


\* the encoder's cache before the i-th pixel of the session was processed
EncCacheBefore(i) == IF i = 1 THEN ZeroCache ELSE enc_log[i - 1].cache

(***************************************************************************)
(* C15  Encoder state update per pixel: once write has processed a pixel   *)
(* p by any rule, cache[hash(p)] = p, every other slot of the cache is     *)
(* what it was before p, and the previous pixel of the session is p (it    *)
(* is the prev_pixel handed to the next pixel, and the field after the     *)
(* last one).                                                              *)
(***************************************************************************)
EncoderStateUpdate ==
    \A i \in 1..Len(enc_log) :
        enc_log[i].ok =>
            LET e == enc_log[i] IN
            /\ Slot(e.cache, pixel_hash(e.px)) = e.px
            /\ \A k \in Slots \ {pixel_hash(e.px)} :
                  Slot(e.cache, k) = Slot(EncCacheBefore(i), k)
            /\ i < Len(enc_log) => enc_log[i + 1].prev = e.px
            /\ i = Len(enc_log) => (prev_pixel = e.px /\ SameCache(cache, e.cache))

\* two pixels of different slots were processed, the second by a rule other
\* than Index
EncoderStateUpdateWitness ==
    /\ Len(enc_log) = 2
    /\ enc_log[1].ok /\ enc_log[2].ok
    /\ pixel_hash(enc_log[1].px) # pixel_hash(enc_log[2].px)
    /\ enc_log[2].bytes[1] > OP_INDEX_END
    /\ prev_pixel = enc_log[2].px

(***************************************************************************)
(* C16  A repeated pixel is an index hit: a pixel equal to the pixel       *)
(* processed just before it in the same session is emitted as exactly one  *)
(* byte, the Index op of slot hash(pixel), whatever rule encoded the       *)
(* pixel before it.                                                        *)
(***************************************************************************)
RepeatedPixelIsIndexHit ==
    \A i \in 2..Len(enc_log) :
        (enc_log[i].ok /\ enc_log[i].px = enc_log[i - 1].px)
            => enc_log[i].bytes = <<OP_INDEX + pixel_hash(enc_log[i].px)>>

\* a pixel emitted as a literal or a difference is repeated
RepeatedPixelWitness ==
    /\ Len(enc_log) = 2
    /\ enc_log[2].ok
    /\ enc_log[2].px = enc_log[1].px
    /\ enc_log[1].bytes[1] > OP_INDEX_END


\* the decoder's cache before its i-th reconstructed pixel
DecCacheBefore(i) == IF i = 1 THEN ZeroCache ELSE dec_log[i - 1].cache

(***************************************************************************)
(* C17  Index dispatch frame: a read that dispatches an Index op for slot  *)
(* k, handed a buffer of at least C bytes, returns the pixel held in slot  *)
(* k as it is (the zero pixel when the slot was never written) without an  *)
(* error, the previous pixel of the decoder becomes that pixel, and none   *)
(* of the 64 slots changes; an index hit of the encoder leaves its 64      *)
(* slots unchanged as well.                                                *)
(***************************************************************************)
IndexDispatchFrame ==
    /\ dec_call.arm = "Index" => (dec_res = "ok" \/ dec_call.short)
    /\ \A i \in 1..Len(dec_log) :
          dec_log[i].arm = "Index" =>
              LET e == dec_log[i]
                  k == stream[e.at + 1]
              IN /\ e.px = Slot(DecCacheBefore(i), k)
                 /\ e.buf = SubSeq(e.px, 1, C)
                 /\ e.n = 1
                 /\ SameCache(e.cache, DecCacheBefore(i))
                 /\ i = Len(dec_log) =>
                        /\ last_px = e.px
                        /\ SameCache(d_cache, e.cache)
    /\ \A i \in 1..Len(enc_log) :
          (enc_log[i].ok /\ enc_log[i].bytes[1] <= OP_INDEX_END)
              => SameCache(enc_log[i].cache, EncCacheBefore(i))

\* the decoder took an Index op of a slot never written and remembers the
\* zero pixel, and the encoder had an index hit
IndexDispatchWitness ==
    /\ phase = "dec"
    /\ dec_call.arm = "Index" /\ dec_res = "ok"
    /\ Len(dec_log) > 0
    /\ dec_log[Len(dec_log)].arm = "Index"
    /\ stream[dec_log[Len(dec_log)].at + 1] \notin DOMAIN DecCacheBefore(Len(dec_log))
    /\ last_px = ZeroPixel
    /\ \E i \in 1..Len(enc_log) :
          enc_log[i].ok /\ enc_log[i].bytes[1] <= OP_INDEX_END


(***************************************************************************)
(* C18  Partial-pixel buffer: after every return of write, with Ok or      *)
(* with a backend I/O error, the buffer of the session holds fewer than C  *)
(* bytes, so that a later write can complete the next pixel.               *)
(***************************************************************************)
BufferBelowChannels == Len(buffer) < C

(***************************************************************************)
(* C19  Sessions of three channels never use a rule that carries alpha:    *)
(* for every pixel, the first included, the guard of the alpha-only        *)
(* difference and the guard of the gray-alpha and RGBA literals are false, *)
(* and the rule selected is Index, coarse difference, luma difference,     *)
(* gray literal or RGB literal.                                            *)
(***************************************************************************)
NoAlphaRulesInRgb ==
    C < ChannelsRgba =>
        \A i \in 1..Len(enc_log) :
            LET e == enc_log[i] IN
            /\ ~(SubSeq(e.px, 1, 3) = SubSeq(e.prev, 1, 3) /\ e.px[4] # e.prev[4])
            /\ ~(e.px[4] # e.prev[4] /\ e.px[4] # 255)
            /\ select_rule(EncCacheBefore(i), e.px, e.prev)
                  \in {"Index", "Diff", "Luma", "Gray", "Rgb"}

(***************************************************************************)
(* C20  Assertion validity: in a session of three channels the assertion   *)
(* of encode_pixel that the alpha channel is 255 never fails, whatever the *)
(* bytes written, every pixel being assembled over (0,0,0,255) with its    *)
(* first C bytes overwritten.                                              *)
(***************************************************************************)
AssertionNeverFails ==
    C < ChannelsRgba =>
        /\ enc_res.r # "panic"
        /\ \A i \in 1..Len(enc_log) : enc_log[i].px[4] = 255

\* a session of three channels has assembled and encoded two pixels
AssertionWitness ==
    /\ C < ChannelsRgba
    /\ Len(enc_log) = 2
    /\ enc_log[2].ok
    /\ enc_log[1].px # enc_log[2].px

====
